---- MODULE Spec2Model ----
(***************************************************************************)
(* State-machine model of flow-agentkit-starter:                           *)
(*   - the Chat State Hook (useAgent, messageAgent) and the page's send    *)
(*     handler (onSendMessage),                                            *)
(*   - the Wallet Connection Hook (useMetaMask),                           *)
(*   - the agent bootstrap (prepareAgentkitAndWalletProvider) and the      *)
(*     memoized agent getter in front of it.                               *)
(* Strings are sequences of one-character strings, so that trim() and the  *)
(* JSON round trip of the key file are computed rather than assumed.       *)
(***************************************************************************)
EXTENDS Integers, Sequences, FiniteSets, TLC

VARIABLES
    \* ---- Chat State Hook / page ----
    messages,     \* useAgent: the history, a sequence of [text, sender]
    isThinking,   \* useAgent: the in-flight flag
    pending,      \* sendMessage calls suspended at `await messageAgent(input)`
    sent,         \* number of sendMessage calls that reached the await
    input,        \* page.tsx: the text box state
    hookCalled,   \* history: sendMessage was called other than by onSendMessage
    last,         \* history: the handler invoked by the latest step and its argument
    \* ---- Wallet Connection Hook ----
    available,    \* window.ethereum is present (isMetaMaskAvailable)
    account,      \* useMetaMask: the connected address or NoAccount
    isConnected,  \* useMetaMask
    isConnecting, \* useMetaMask
    error,        \* useMetaMask: the message shown or NoError
    probe,        \* position of the mount effect's checkConnection
    listening,    \* the accountsChanged listener is registered
    connects,     \* the connectMetaMask calls, each with its position
    wlast,        \* history: the wallet handler run by the latest step
    \* ---- agent bootstrap (server process) ----
    envKey,       \* process.env.PRIVATE_KEY
    cdp,          \* both CDP_API_KEY_NAME and CDP_API_KEY_PRIVATE_KEY are set
    isClient,     \* typeof window !== 'undefined' && window.ethereum
    file,         \* content of wallet_data.txt, or NoFile
    agent,        \* the memoized agent of the process, or NoAgent
    built,        \* constructions completed in this process
    reqs,         \* the requests obtaining the agent, each with its position
    generated,    \* history: the key generatePrivateKey returned, if any
    blast         \* history: the bootstrap step run by the latest step

chatVars == <<messages, isThinking, pending, sent, input, hookCalled, last>>

hookState == <<account, isConnected, isConnecting, error>>

walletVars == <<available, hookState, probe, listening, connects, wlast>>

bootVars == <<envKey, cdp, isClient, file, agent, built, reqs, generated, blast>>

vars == <<chatVars, walletVars, bootVars>>

\* ------------------------------------------------------------------ bounds
MaxSends == 2
MaxConnects == 2
MaxRequests == 2

\* ------------------------------------------------------------------ strings
\* JavaScript null / undefined (no character is "null", so it is no string).
Null == <<"null">>
Empty == <<>>

\* The texts a user can type: blank ones and non-blank ones, with inner,
\* leading and trailing whitespace.
Inputs ==
    { <<>>, <<" ">>, <<"a">>, <<" ", "a", " ">>, <<"a", " ", "b">> }

IsSpace(c) == c = " "

RECURSIVE TrimStart(_)
TrimStart(s) ==
    IF s = <<>> THEN <<>>
    ELSE IF IsSpace(Head(s)) THEN TrimStart(Tail(s)) ELSE s

RECURSIVE TrimEnd(_)
TrimEnd(s) ==
    IF s = <<>> THEN <<>>
    ELSE IF IsSpace(s[Len(s)]) THEN TrimEnd(SubSeq(s, 1, Len(s) - 1)) ELSE s

\* String.prototype.trim
Trim(s) == TrimEnd(TrimStart(s))

\* JavaScript truthiness of a string-or-null value
Truthy(v) == v # Null /\ v # Empty

\* a ?? b
Coalesce(a, b) == IF a # Null THEN a ELSE b

\* ------------------------------------------------------------------ chat
\* What the fetch of /api/agent can produce: a rejected fetch or an
\* unparsable body (ok = FALSE), or a parsed body whose response and error
\* fields are each absent, empty or a text.
Outcomes ==
    [ok : {FALSE}, response : {Null}, error : {Null}]
    \cup [ok : {TRUE}, response : {Null, Empty, <<"r">>},
                       error : {Null, Empty, <<"e">>}]

\* Mutant: the error field of the body is not used as the reply.
messageAgentResponseOnly(o) ==
    IF o.ok THEN o.response ELSE Null

\* messageAgent: data.response ?? data.error ?? null, null on any throw
messageAgent(o) ==
    IF o.ok THEN Coalesce(o.response, Coalesce(o.error, Null)) ELSE Null

UserEntry(text) == [text |-> text, sender |-> "user"]
AgentEntry(text) == [text |-> text, sender |-> "agent"]

\* Mutant: the blank check without trim().
SendMessageBodyNoTrim(text) ==
    IF text = <<>>
    THEN UNCHANGED <<messages, isThinking, pending, sent>>
    ELSE /\ sent < MaxSends
         /\ messages' = Append(messages, UserEntry(text))
         /\ isThinking' = TRUE
         /\ pending' = pending \cup {[id |-> sent + 1, text |-> text]}
         /\ sent' = sent + 1

\* useAgent.sendMessage up to its await: returns at once on blank input,
\* otherwise appends the user entry, raises the flag and starts the request.
SendMessageBody(text) ==
    IF Trim(text) = <<>>
    THEN UNCHANGED <<messages, isThinking, pending, sent>>
    ELSE /\ sent < MaxSends
         /\ messages' = Append(messages, UserEntry(text))
         /\ isThinking' = TRUE
         /\ pending' = pending \cup {[id |-> sent + 1, text |-> text]}
         /\ sent' = sent + 1

\* sendMessage called directly on the hook (any consumer of useAgent).
SendMessage(text) ==
    /\ SendMessageBody(text)
    /\ hookCalled' = (hookCalled \/ Trim(text) # <<>>)
    /\ last' = [op |-> "sendMessage", arg |-> text]
    /\ UNCHANGED input
    /\ UNCHANGED <<walletVars, bootVars>>

\* page.tsx onChange: setInput(e.target.value)
SetInput(text) ==
    /\ input' = text
    /\ last' = [op |-> "setInput", arg |-> text]
    /\ UNCHANGED <<messages, isThinking, pending, sent, hookCalled>>
    /\ UNCHANGED <<walletVars, bootVars>>

\* Mutant: the guard without the in-flight check.
SendAllowedWhileThinking == Trim(input) # <<>>

\* The guard of page.tsx onSendMessage
SendAllowed == Trim(input) # <<>> /\ ~isThinking

\* page.tsx onSendMessage (Enter key or Send button)
OnSendMessage ==
    /\ last' = [op |-> "onSendMessage", arg |-> input]
    /\ IF SendAllowed
       THEN /\ input' = Empty
            /\ SendMessageBody(input)
       ELSE UNCHANGED <<messages, isThinking, pending, sent, input>>
    /\ UNCHANGED hookCalled
    /\ UNCHANGED <<walletVars, bootVars>>

\* Mutant: a failed request escapes messageAgent, so the lines after the
\* await never run.
ResolveThrowing(c, o) ==
    /\ c \in pending
    /\ LET responseMessage == messageAgent(o) IN
        messages' = IF Truthy(responseMessage)
                    THEN Append(messages, AgentEntry(responseMessage))
                    ELSE messages
    /\ isThinking' = IF o.ok THEN FALSE ELSE isThinking
    /\ pending' = pending \ {c}
    /\ last' = [op |-> "resolve", arg |-> c.text, id |-> c.id, outcome |-> o]
    /\ UNCHANGED <<sent, input, hookCalled>>
    /\ UNCHANGED <<walletVars, bootVars>>

\* The rest of sendMessage, run when messageAgent resolves for call c.
Resolve(c, o) ==
    /\ c \in pending
    /\ LET responseMessage == messageAgent(o) IN
        messages' = IF Truthy(responseMessage)
                    THEN Append(messages, AgentEntry(responseMessage))
                    ELSE messages
    /\ isThinking' = FALSE
    /\ pending' = pending \ {c}
    /\ last' = [op |-> "resolve", arg |-> c.text, id |-> c.id, outcome |-> o]
    /\ UNCHANGED <<sent, input, hookCalled>>
    /\ UNCHANGED <<walletVars, bootVars>>

ChatInit ==
    /\ messages = <<>>
    /\ isThinking = FALSE
    /\ pending = {}
    /\ sent = 0
    /\ input = Empty
    /\ hookCalled = FALSE
    /\ last = [op |-> "init", arg |-> Empty]


\* ------------------------------------------------------------------ wallet
NoAccount == "null"
NoError == "null"

\* The account lists the wallet hands over: none, one or two accounts.
AccountLists == {<<>>, <<"0xA">>, <<"0xB", "0xA">>}

\* The results of an account request: rejected, or resolved with a list or
\* with nothing.
AccountResults ==
    [ok : {FALSE}, accounts : {Null}]
    \cup [ok : {TRUE}, accounts : AccountLists \cup {Null}]

\* accounts && accounts.length > 0
HasAccounts(accounts) == accounts # Null /\ Len(accounts) > 0

Calls == 1..MaxConnects

\* A connectMetaMask call that is not running; addOk records how its add
\* request went once that has settled.
IdleCall == [pc |-> "idle", accounts |-> Null, addOk |-> TRUE]

\* The handler run by a step: its name, the call it belongs to, the account
\* list it received, how its request went, and isConnected before it ran.
Ran(op, i, accounts, ok) ==
    [op |-> op, call |-> i, accounts |-> accounts, ok |-> ok,
     addOk |-> IF i \in Calls THEN connects[i].addOk ELSE TRUE,
     wasConnected |-> isConnected]

\* useEffect on mount: checkConnection up to its await, then the listener
\* registration.
Mount ==
    /\ probe = "unmounted"
    /\ IF ~available
       THEN /\ error' = "MetaMask is not installed"
            /\ probe' = "done"
            /\ listening' = FALSE
       ELSE /\ probe' = "probing"
            /\ listening' = TRUE
            /\ UNCHANGED error
    /\ wlast' = Ran("mount", 0, Null, TRUE)
    /\ UNCHANGED <<available, account, isConnected, isConnecting, connects>>
    /\ UNCHANGED <<chatVars, bootVars>>

\* checkConnection after eth_accounts settles
ProbeReturns(r) ==
    /\ probe = "probing"
    /\ probe' = "done"
    /\ IF r.ok
       THEN /\ IF HasAccounts(r.accounts)
               THEN account' = r.accounts[1] /\ isConnected' = TRUE
               ELSE UNCHANGED <<account, isConnected>>
            /\ UNCHANGED error
       ELSE /\ error' = "Failed to check MetaMask connection"
            /\ UNCHANGED <<account, isConnected>>
    /\ wlast' = Ran("probeReturned", 0, r.accounts, r.ok)
    /\ UNCHANGED <<available, isConnecting, listening, connects>>
    /\ UNCHANGED <<chatVars, bootVars>>

\* Mutant: an empty list is ignored, as in checkConnection.
AccountsChangedKeep(accounts) ==
    /\ listening
    /\ IF Len(accounts) = 0
       THEN UNCHANGED <<account, isConnected>>
       ELSE account' = accounts[1] /\ isConnected' = TRUE
    /\ wlast' = Ran("accountsChanged", 0, accounts, TRUE)
    /\ UNCHANGED <<available, isConnecting, error, probe, listening, connects>>
    /\ UNCHANGED <<chatVars, bootVars>>

\* The accountsChanged listener
AccountsChanged(accounts) ==
    /\ listening
    /\ IF Len(accounts) = 0
       THEN account' = NoAccount /\ isConnected' = FALSE
       ELSE account' = accounts[1] /\ isConnected' = TRUE
    /\ wlast' = Ran("accountsChanged", 0, accounts, TRUE)
    /\ UNCHANGED <<available, isConnecting, error, probe, listening, connects>>
    /\ UNCHANGED <<chatVars, bootVars>>

\* connectMetaMask up to its first await (eth_requestAccounts)
ConnectStart(i) ==
    /\ probe # "unmounted"
    /\ connects[i].pc = "idle"
    /\ IF ~available
       THEN /\ error' = "MetaMask is not installed"
            /\ UNCHANGED <<isConnecting, connects>>
       ELSE /\ isConnecting' = TRUE
            /\ error' = NoError
            /\ connects' = [connects EXCEPT ![i].pc = "auth"]
    /\ wlast' = Ran("connectStart", i, Null, available)
    /\ UNCHANGED <<available, account, isConnected, probe, listening>>
    /\ UNCHANGED <<chatVars, bootVars>>

\* eth_requestAccounts settles: on rejection the outer catch and finally
\* run; otherwise wallet_addEthereumChain is requested.
AuthReturns(i, r) ==
    /\ connects[i].pc = "auth"
    /\ IF r.ok
       THEN /\ connects' = [connects EXCEPT ![i].pc = "add", ![i].accounts = r.accounts]
            /\ UNCHANGED <<error, isConnecting>>
       ELSE /\ error' = "Failed to connect to MetaMask"
            /\ isConnecting' = FALSE
            /\ connects' = [connects EXCEPT ![i] = IdleCall]
    /\ wlast' = Ran("authReturned", i, r.accounts, r.ok)
    /\ UNCHANGED <<available, account, isConnected, probe, listening>>
    /\ UNCHANGED <<chatVars, bootVars>>

\* Mutant: no inner try around the add request, so its failure reaches the
\* outer catch.
AddReturnsUncaught(i, ok) ==
    /\ connects[i].pc = "add"
    /\ IF ok
       THEN /\ connects' = [connects EXCEPT ![i].pc = "switch", ![i].addOk = ok]
            /\ UNCHANGED <<error, isConnecting>>
       ELSE /\ error' = "Failed to connect to MetaMask"
            /\ isConnecting' = FALSE
            /\ connects' = [connects EXCEPT ![i] = IdleCall]
    /\ wlast' = Ran("addReturned", i, connects[i].accounts, ok)
    /\ UNCHANGED <<available, account, isConnected, probe, listening>>
    /\ UNCHANGED <<chatVars, bootVars>>

\* wallet_addEthereumChain settles: a failure is only logged; then
\* wallet_switchEthereumChain is requested.
AddReturns(i, ok) ==
    /\ connects[i].pc = "add"
    /\ connects' = [connects EXCEPT ![i].pc = "switch", ![i].addOk = ok]
    /\ wlast' = Ran("addReturned", i, connects[i].accounts, ok)
    /\ UNCHANGED <<available, hookState, probe, listening>>
    /\ UNCHANGED <<chatVars, bootVars>>

\* Mutant: isConnected is set without checking the list.
SwitchReturnsUnchecked(i, ok) ==
    /\ connects[i].pc = "switch"
    /\ error' = IF ok THEN error ELSE "Failed to switch to Flow testnet"
    /\ IF HasAccounts(connects[i].accounts)
       THEN account' = connects[i].accounts[1] /\ isConnected' = TRUE
       ELSE account' = account /\ isConnected' = TRUE
    /\ isConnecting' = FALSE
    /\ connects' = [connects EXCEPT ![i] = IdleCall]
    /\ wlast' = Ran("switchReturned", i, connects[i].accounts, ok)
    /\ UNCHANGED <<available, probe, listening>>
    /\ UNCHANGED <<chatVars, bootVars>>

\* wallet_switchEthereumChain settles: a failure sets the error; then the
\* account is taken from the authorized list, and finally runs.
SwitchReturns(i, ok) ==
    /\ connects[i].pc = "switch"
    /\ error' = IF ok THEN error ELSE "Failed to switch to Flow testnet"
    /\ IF HasAccounts(connects[i].accounts)
       THEN account' = connects[i].accounts[1] /\ isConnected' = TRUE
       ELSE UNCHANGED <<account, isConnected>>
    /\ isConnecting' = FALSE
    /\ connects' = [connects EXCEPT ![i] = IdleCall]
    /\ wlast' = Ran("switchReturned", i, connects[i].accounts, ok)
    /\ UNCHANGED <<available, probe, listening>>
    /\ UNCHANGED <<chatVars, bootVars>>

WalletInit ==
    /\ available \in BOOLEAN
    /\ account = NoAccount
    /\ isConnected = FALSE
    /\ isConnecting = FALSE
    /\ error = NoError
    /\ probe = "unmounted"
    /\ listening = FALSE
    /\ connects = [i \in Calls |-> IdleCall]
    /\ wlast = [op |-> "init", call |-> 0, accounts |-> Null, ok |-> TRUE,
                addOk |-> TRUE, wasConnected |-> FALSE]

NextWallet ==
    \/ Mount
    \/ \E r \in AccountResults : ProbeReturns(r)
    \/ \E a \in AccountLists : AccountsChanged(a)
    \/ \E i \in Calls : ConnectStart(i)
    \/ \E i \in Calls, r \in AccountResults : AuthReturns(i, r)
    \/ \E i \in Calls, ok \in BOOLEAN : AddReturns(i, ok)
    \/ \E i \in Calls, ok \in BOOLEAN : SwitchReturns(i, ok)

\* ------------------------------------------------------------------ bootstrap
NoKey == "undefined"
NoFile == <<"ENOENT">>
NoAgent == 0
GenericError == "Failed to initialize agent"

\* Keys privateKeyToAccount accepts; any other value makes it throw.
EnvKeys == {"0xE"}
FileKeys == {"0xF"}
FreshKeys == {"0xG1", "0xG2"}
ValidKeys == EnvKeys \cup FileKeys \cup FreshKeys

\* JSON.stringify({ privateKey }), as a sequence of tokens
JsonStringify(key) == <<"{", "privateKey", ":", key, "}">>

\* JSON.parse of an object with at most one member: the member, or a
\* SyntaxError on any other text.
JsonParse(text) ==
    IF text = <<"{", "}">>
    THEN [ok |-> TRUE, name |-> "", value |-> NoKey]
    ELSE IF Len(text) = 5 /\ text[1] = "{" /\ text[3] = ":" /\ text[5] = "}"
    THEN [ok |-> TRUE, name |-> text[2], value |-> text[4]]
    ELSE [ok |-> FALSE, name |-> "", value |-> NoKey]

\* JSON.parse(...).privateKey
PrivateKeyOf(parsed) ==
    IF parsed.name = "privateKey" THEN parsed.value ELSE NoKey

\* !privateKey
Falsy(key) == key = NoKey \/ key = ""

\* Mutant: the persisted file is consulted before the environment.
LoadKeyFileFirst(fresh) ==
    IF file # NoFile
    THEN LET parsed == JsonParse(file) IN
         IF parsed.ok
         THEN [source |-> "file", key |-> PrivateKeyOf(parsed), threw |-> "none",
               file |-> file, read |-> TRUE]
         ELSE [source |-> "file", key |-> NoKey, threw |-> "SyntaxError", file |-> file,
               read |-> TRUE]
    ELSE IF ~Falsy(envKey)
    THEN [source |-> "env", key |-> envKey, threw |-> "none", file |-> file,
          read |-> FALSE]
    ELSE [source |-> "generated", key |-> fresh, threw |-> "none",
          file |-> JsonStringify(fresh), read |-> FALSE]

\* Key resolution of the local-key branch: the key, where it came from, what
\* was thrown on the way, the file as it is left and whether it was read.
\* fresh is the value generatePrivateKey would return.
LoadKey(fresh) ==
    IF ~Falsy(envKey)
    THEN [source |-> "env", key |-> envKey, threw |-> "none", file |-> file,
          read |-> FALSE]
    ELSE IF file # NoFile
    THEN LET parsed == JsonParse(file) IN
         IF parsed.ok
         THEN [source |-> "file", key |-> PrivateKeyOf(parsed), threw |-> "none",
               file |-> file, read |-> TRUE]
         ELSE [source |-> "file", key |-> NoKey, threw |-> "SyntaxError", file |-> file,
               read |-> TRUE]
    ELSE [source |-> "generated", key |-> fresh, threw |-> "none",
          file |-> JsonStringify(fresh), read |-> FALSE]

\* The sub-steps of the bootstrap that can throw on their own account.
Faults == {"none", "createWalletClient", "actionProviders"}

\* The action providers assembled for the agent
ActionProviders ==
    <<"wallet", "flow", "erc20">> \o (IF cdp THEN <<"cdpApi">> ELSE <<>>)

\* The body of the try block up to `await AgentKit.from`: what was thrown
\* ("none" when the await is reached), the wallet provider, and the key
\* resolution performed on the way (source "browser" when there was none).
PrepareBody(fresh, fault) ==
    IF isClient
    THEN [threw |-> IF fault = "none" THEN "none" ELSE fault,
          source |-> "browser", key |-> NoKey, file |-> file, read |-> FALSE,
          walletProvider |-> [kind |-> "browser", key |-> NoKey]]
    ELSE LET k == LoadKey(fresh) IN
         [threw |-> IF k.threw # "none" THEN k.threw
                    ELSE IF k.key \notin ValidKeys THEN "InvalidPrivateKey"
                    ELSE fault,
          source |-> k.source, key |-> k.key, file |-> k.file, read |-> k.read,
          walletProvider |-> [kind |-> "local", key |-> k.key]]

\* Mutant: the catch block rethrows what it caught.
CaughtAsIs(cause) == cause

\* catch (error) { ...; throw new Error("Failed to initialize agent") }
Caught(cause) == GenericError

Requests == 1..MaxRequests

IdleRequest ==
    [pc |-> "idle", walletProvider |-> [kind |-> "none", key |-> NoKey],
     actionProviders |-> <<>>]

\* prepareAgentkitAndWalletProvider, called for request r, up to its await:
\* the key file is left as the key resolution left it; a throw is caught
\* and re-raised, ending the call.
PrepareStart(r, fresh, fault) ==
    LET b == PrepareBody(fresh, fault) IN
    /\ file' = b.file
    /\ generated' = IF b.source = "generated" THEN b.key ELSE generated
    /\ reqs' = IF b.threw = "none"
               THEN [reqs EXCEPT ![r] = [pc |-> "from",
                                         walletProvider |-> b.walletProvider,
                                         actionProviders |-> ActionProviders]]
               ELSE reqs
    /\ blast' = [op |-> "prepare", req |-> r, source |-> b.source, key |-> b.key,
                 result |-> IF b.threw = "none" THEN "pending" ELSE Caught(b.threw),
                 cause |-> b.threw, fileBefore |-> file, instance |-> NoAgent,
                 read |-> b.read]

\* prepareAgentkitAndWalletProvider after AgentKit.from settles: the pair is
\* returned (one more construction done), or the rejection is caught and
\* re-raised.
PrepareFinish(r, ok) ==
    /\ reqs' = [reqs EXCEPT ![r] = IdleRequest]
    /\ built' = IF ok THEN built + 1 ELSE built
    /\ blast' = [op |-> "from", req |-> r, source |-> "none",
                 key |-> reqs[r].walletProvider.key,
                 result |-> IF ok THEN "ok" ELSE Caught("AgentKitError"),
                 cause |-> IF ok THEN "none" ELSE "AgentKitError",
                 fileBefore |-> file,
                 instance |-> IF ok THEN built + 1 ELSE NoAgent, read |-> FALSE]

\* A request obtains the agent: the memoized one if there is one, otherwise
\* it runs the bootstrap.
GetAgent(r, fresh, fault) ==
    /\ reqs[r].pc = "idle"
    /\ IF agent # NoAgent
       THEN /\ blast' = [op |-> "reuse", req |-> r, source |-> "none", key |-> NoKey,
                         result |-> "ok", cause |-> "none", fileBefore |-> file,
                         instance |-> agent, read |-> FALSE]
            /\ UNCHANGED <<file, reqs, generated>>
       ELSE PrepareStart(r, fresh, fault)
    /\ UNCHANGED <<envKey, cdp, isClient, agent, built>>
    /\ UNCHANGED <<chatVars, walletVars>>

\* The bootstrap returns to the getter, which memoizes the agent made from
\* the pair; a failure memoizes nothing.
FromReturns(r, ok) ==
    /\ reqs[r].pc = "from"
    /\ PrepareFinish(r, ok)
    /\ agent' = IF ok THEN built + 1 ELSE agent
    /\ UNCHANGED <<envKey, cdp, isClient, file, generated>>
    /\ UNCHANGED <<chatVars, walletVars>>

\* The server process is restarted: memory is lost, the environment and
\* wallet_data.txt stay.
Restart ==
    /\ built > 0 \/ \E r \in Requests : reqs[r].pc # "idle"
    /\ agent' = NoAgent
    /\ built' = 0
    /\ reqs' = [r \in Requests |-> IdleRequest]
    /\ blast' = [op |-> "restart", req |-> 0, source |-> "none", key |-> NoKey,
                 result |-> "ok", cause |-> "none", fileBefore |-> file,
                 instance |-> NoAgent, read |-> FALSE]
    /\ UNCHANGED <<envKey, cdp, isClient, file, generated>>
    /\ UNCHANGED <<chatVars, walletVars>>

BootInit ==
    /\ envKey \in {NoKey, "", "0xE", "0xBAD"}
    /\ cdp \in BOOLEAN
    /\ isClient \in BOOLEAN
    /\ file \in {NoFile, JsonStringify("0xF"), <<"{", "}">>, <<"{", "privateKey">>}
    /\ agent = NoAgent
    /\ built = 0
    /\ reqs = [r \in Requests |-> IdleRequest]
    /\ generated = NoKey
    /\ blast = [op |-> "init", req |-> 0, source |-> "none", key |-> NoKey,
                result |-> "ok", cause |-> "none", fileBefore |-> file,
                instance |-> NoAgent, read |-> FALSE]

NextBoot ==
    \/ \E r \in Requests, fresh \in FreshKeys, fault \in Faults : GetAgent(r, fresh, fault)
    \/ \E r \in Requests, ok \in BOOLEAN : FromReturns(r, ok)
    \/ Restart

\* The subsystems share nothing; each specification explores one of them
\* with the others at rest in a fixed environment.
WalletAtRest == WalletInit /\ available = TRUE

BootAtRest ==
    BootInit /\ envKey = NoKey /\ cdp = FALSE /\ isClient = FALSE /\ file = NoFile

Init == ChatInit /\ WalletAtRest /\ BootAtRest

InitWallet == ChatInit /\ WalletInit /\ BootAtRest

InitBoot == ChatInit /\ WalletAtRest /\ BootInit

\* The page as wired: sendMessage is reached only through onSendMessage.
NextPage ==
    \/ \E t \in Inputs : SetInput(t)
    \/ OnSendMessage
    \/ \E c \in pending, o \in Outcomes : Resolve(c, o)

\* The hook with any caller: the page's handler and direct calls.
Next ==
    \/ \E t \in Inputs : SetInput(t)
    \/ OnSendMessage
    \/ \E t \in Inputs : SendMessage(t)
    \/ \E c \in pending, o \in Outcomes : Resolve(c, o)

Spec == Init /\ [][Next]_vars

SpecPage == Init /\ [][NextPage]_vars

SpecWallet == InitWallet /\ [][NextWallet]_vars

SpecBoot == InitBoot /\ [][NextBoot]_vars

\* ================================================================== claims
\* The step just taken was made by the named handler (every handler records
\* itself in last).
ChatState == <<messages, isThinking, pending, sent>>

\* C1 (as stated): a sendMessage call with blank text, or made while an
\* earlier call has not resolved, appends nothing and starts no request, so
\* at most one request is outstanding.
C1_IgnoredWhileInFlight ==
    [][(last'.op = "sendMessage" /\ (Trim(last'.arg) = <<>> \/ pending # {}))
            => UNCHANGED ChatState]_vars

\* C1 (amended): sendMessage ignores blank text only; the in-flight check is
\* made by its caller onSendMessage, which changes nothing when the input is
\* blank or isThinking is true; as long as sendMessage is reached only through
\* onSendMessage at most one request is outstanding.
C1_GuardInCaller ==
    /\ [][(last'.op = "sendMessage" /\ Trim(last'.arg) = <<>>)
            => UNCHANGED ChatState]_vars
    /\ [][(last'.op = "onSendMessage" /\ (Trim(input) = <<>> \/ isThinking))
            => UNCHANGED <<ChatState, input>>]_vars
    /\ [](~hookCalled => Cardinality(pending) <= 1)

\* C1 witness: the page's handler was invoked with a non-blank input while
\* the one request was outstanding, and nothing was sent.
C1_Witness ==
    /\ last.op = "onSendMessage" /\ Trim(last.arg) # <<>>
    /\ ~hookCalled /\ sent = 1 /\ Cardinality(pending) = 1
    /\ input = last.arg /\ Len(messages) = 1

C3_UserEntryFirst ==
    /\ [][(last'.op = "sendMessage" /\ Trim(last'.arg) # <<>>)
            => /\ messages' = Append(messages, UserEntry(last'.arg))
               /\ \E c \in pending' \ pending : c.text = last'.arg]_vars
    /\ [][(last'.op = "onSendMessage" /\ Trim(input) # <<>> /\ ~isThinking)
            => /\ messages' = Append(messages, UserEntry(input))
               /\ \E c \in pending' \ pending : c.text = input]_vars
    /\ [][(last'.op \in {"sendMessage", "onSendMessage"} /\ Trim(last'.arg) = <<>>)
            => UNCHANGED <<messages, isThinking>>]_vars
    /\ [][last'.op = "resolve"
            => /\ SubSeq(messages', 1, Len(messages)) = messages
               /\ \E i \in 1..Len(messages) : messages[i] = UserEntry(last'.arg)
               /\ \A i \in (Len(messages) + 1)..Len(messages') :
                      messages'[i].sender = "agent"]_vars
    /\ [](\A c \in pending :
            \E i \in 1..Len(messages) : messages[i] = UserEntry(c.text))

\* C3 witness: one call sent and answered: the user entry, then the agent's.
C3_Witness ==
    /\ last.op = "resolve" /\ sent = 1
    /\ messages = <<UserEntry(last.arg), AgentEntry(<<"r">>)>>

C5_ConstructedAtMostOnce ==
    /\ built <= 1
    /\ blast.op = "reuse" => blast.instance = agent /\ blast.instance = 1

\* C6: in the local-key branch the environment key is used whenever it is
\* set, and then the file is neither read nor written; otherwise the file's
\* key is used when the file exists, and the file is left as it was;
\* otherwise a key is generated and written to the file; and once a key has
\* been generated the file holds it and a later resolution without an
\* environment key reads back that very key.
C6_KeyPrecedence ==
    /\ (blast.op = "prepare" /\ blast.source # "browser") =>
        /\ blast.source = "env" <=> ~Falsy(envKey)
        /\ blast.source = "env" =>
              blast.key = envKey /\ ~blast.read /\ file = blast.fileBefore
        /\ blast.source = "file" =>
              /\ blast.fileBefore # NoFile /\ blast.read
              /\ file = blast.fileBefore
              /\ generated # NoKey => blast.key = generated /\ blast.cause # "SyntaxError"
        /\ blast.source = "generated" =>
              /\ blast.fileBefore = NoFile /\ ~blast.read
              /\ blast.key = generated
              /\ file = <<"{", "privateKey", ":", blast.key, "}">>
    /\ generated # NoKey => file = <<"{", "privateKey", ":", generated, "}">>

\* C6 witness: a key was generated earlier and the latest resolution read
\* the same key back from the file.
C6_Witness ==
    /\ blast.op = "prepare" /\ blast.source = "file"
    /\ generated \in FreshKeys /\ blast.key = generated

\* C7: whatever a sub-step of the bootstrap throws, the call raises the one
\* generic error; it ends with the pair or with that error, nothing else.
C7_GenericErrorOnly ==
    /\ blast.result \in {"ok", "pending", GenericError}
    /\ blast.cause # "none" <=> blast.result = GenericError
    /\ (blast.op = "from" /\ blast.result = "ok") =>
          blast.instance # NoAgent /\ blast.key \in ValidKeys \cup {NoKey}

\* C7 witness: the persisted key file did not parse and the call raised the
\* generic error.
C7_Witness ==
    /\ blast.op = "prepare" /\ blast.cause = "SyntaxError"
    /\ blast.result = GenericError

\* C8: after an accountsChanged event with an empty list the hook is
\* disconnected with no account, whatever it was before; after one with a
\* non-empty list the account is the first element and isConnected is true.
C8_AccountsChanged ==
    wlast.op = "accountsChanged" =>
        IF Len(wlast.accounts) = 0
        THEN account = NoAccount /\ ~isConnected
        ELSE account = wlast.accounts[1] /\ isConnected

\* C8 witness: the hook was connected and an empty list disconnected it.
C8_Witness ==
    /\ wlast.op = "accountsChanged" /\ wlast.accounts = <<>>
    /\ wlast.wasConnected /\ ~isConnected /\ account = NoAccount

\* C9: a settled add request, failed or not, changes nothing of the hook
\* state and leads to the switch request; when the switch request settles
\* isConnecting is cleared, the error is set to the switch message exactly
\* when the switch failed, and with a non-empty authorized list the account
\* is its first element and isConnected is true; a failed authorization
\* leaves account and isConnected alone, sets the connect message and clears
\* isConnecting; a call made without a wallet leaves isConnecting false.
C9_ConnectOutcome ==
    /\ [][wlast'.op = "addReturned"
            => /\ UNCHANGED hookState
               /\ connects'[wlast'.call].pc = "switch"]_vars
    /\ [][wlast'.op = "switchReturned"
            => /\ ~isConnecting'
               /\ error' = IF wlast'.ok THEN error
                           ELSE "Failed to switch to Flow testnet"
               /\ HasAccounts(wlast'.accounts)
                     => account' = wlast'.accounts[1] /\ isConnected']_vars
    /\ [][(wlast'.op = "authReturned" /\ ~wlast'.ok)
            => /\ UNCHANGED <<account, isConnected>>
               /\ error' = "Failed to connect to MetaMask"
               /\ ~isConnecting']_vars
    /\ [][(wlast'.op = "connectStart" /\ ~wlast'.ok) => ~isConnecting']_vars

\* C9 witness: add and switch both failed after an authorization with
\* accounts: connected, with the switch message, not connecting.
C9_Witness ==
    /\ wlast.op = "switchReturned" /\ ~wlast.ok /\ ~wlast.addOk
    /\ HasAccounts(wlast.accounts)
    /\ isConnected /\ account = wlast.accounts[1]
    /\ error = "Failed to switch to Flow testnet" /\ ~isConnecting

\* C10: isConnected is true exactly when an account is set.
C10_ConnectedIffAccount == isConnected <=> account # NoAccount

\* C10 witness: connected with an account after a connect whose
\* authorization returned no account was overtaken by an account event.
C10_Witness ==
    /\ wlast.op = "switchReturned" /\ ~HasAccounts(wlast.accounts)
    /\ isConnected /\ account = "0xA"

====
